---- MODULE Spec2Model ----
(***************************************************************************)
(* Model of src/commission.js: the CSV codec, the currency normaliser, the *)
(* bonus calculator and the two report generators.                         *)
(*                                                                         *)
(* JavaScript strings are TLA+ strings (Len, SubSeq and \o act on them).   *)
(* A JavaScript Number is a record [nan, mil]: nan says the value is NaN,  *)
(* mil is the decimal value in thousandths.  Where the binary rounding of  *)
(* a decimal literal decides an outcome (parseInt of a tiny quotient) the  *)
(* direction of that rounding is computed by ParseFloatErr.                *)
(*                                                                         *)
(* TLC stores the strings of a state as bytes, so the two currency signs   *)
(* outside ASCII are written with stand-ins in every string of the model:  *)
(* "#" is the pound sign of the source and "E" is a euro sign.             *)
(***************************************************************************)
EXTENDS Integers, Sequences, FiniteSets, TLC

VARIABLES
    pc,                 \* position of the run
    csvStr,             \* getCaseCommissionData: the input text
    csvArr,             \* convertCSVStrToArr's result
    outStr,             \* convertArrayToCSVStr's result
    caseValue,          \* bonusCalculator: its three arguments
    threshold,
    target,
    totalBonus,         \* bonusCalculator's result
    brokerCases,        \* the report generators' input rows
    bonusCalculation,   \* getCommissionData's selector (0 models undefined)
    conversionLookup,   \* convertCasesToGBP's lookup argument
    gBPBrokerCases,     \* convertCasesToGBP's result
    commisionArr,       \* getCommissionData's result
    summaryArr,         \* getCommissionSummaryData's result
    thrown              \* the exception the last call raised, or "none"

vars == <<pc, csvStr, csvArr, outStr, caseValue, threshold, target, totalBonus,
          brokerCases, bonusCalculation, conversionLookup, gBPBrokerCases,
          commisionArr, summaryArr, thrown>>

codecVars == <<csvStr, csvArr, outStr>>
bonusVars == <<caseValue, threshold, target, totalBonus>>
reportVars == <<brokerCases, bonusCalculation, conversionLookup, gBPBrokerCases,
                commisionArr, summaryArr, thrown>>

-----------------------------------------------------------------------------
(* Program constants, src/commission.js lines 3-18.                        *)

BASE_COMMISSION == 125
BONUS_AMOUNT == 10
BONUS_TYPE_1 == 1
BONUS_TYPE_2 == 2
THRESHOLD_AMOUNT_1 == 100000
THRESHOLD_AMOUNT_2 == 250000
TARGET_AMOUNT_1 == 10000
TARGET_AMOUNT_2 == 50000

\* { $: 0.8 }: the multiplier is kept in tenths.
CURRENCY_LOOKUP == [sym \in {"$"} |-> 8]

-----------------------------------------------------------------------------
(* Bounds of the model.                                                    *)

MaxTextLen == 4     \* length of the texts given to the codec
MaxRows == 2        \* case rows after the header
MaxPence == 5       \* pence above a whole pound in bonusCalculator's inputs
MaxSteps == 2       \* whole targets above the threshold in those inputs

-----------------------------------------------------------------------------
(* Strings and Numbers of the language.                                    *)

NaN == [nan |-> TRUE, mil |-> 0]
Num(mil) == [nan |-> FALSE, mil |-> mil]

CharAt(s, i) == SubSeq(s, i, i)
IsDigit(c) == c \in {"0", "1", "2", "3", "4", "5", "6", "7", "8", "9"}
DigitVal(c) == CHOOSE d \in 0..9 : CharAt("0123456789", d + 1) = c

\* String.prototype.slice(from) and substring(from), from counted from 0.
SliceFrom(s, from) == SubSeq(s, from + 1, Len(s))
\* String.prototype.slice(0, 1).
FirstChar(s) == SubSeq(s, 1, 1)
\* String.prototype.startsWith.
StartsWith(s, prefix) == Len(s) >= Len(prefix) /\ SubSeq(s, 1, Len(prefix)) = prefix

RECURSIVE DigitPrefixLen(_)
DigitPrefixLen(s) ==
    IF s = "" \/ ~IsDigit(CharAt(s, 1)) THEN 0
    ELSE 1 + DigitPrefixLen(SliceFrom(s, 1))

RECURSIVE StrToNat(_)
StrToNat(s) ==
    IF s = "" THEN 0
    ELSE StrToNat(SubSeq(s, 1, Len(s) - 1)) * 10 + DigitVal(CharAt(s, Len(s)))

RECURSIVE NatToStr(_)
NatToStr(n) ==
    IF n < 10 THEN CharAt("0123456789", n + 1)
    ELSE NatToStr(n \div 10) \o CharAt("0123456789", (n % 10) + 1)

\* The first three fraction digits as thousandths ("5" is 500, "05" is 50).
FracToMil(f) ==
    LET d(i) == IF i <= Len(f) THEN DigitVal(CharAt(f, i)) ELSE 0
    IN  d(1) * 100 + d(2) * 10 + d(3)

\* The decimal literal at the start of s: digits, then optionally "." and digits.
DecimalPrefix(s) ==
    LET i == DigitPrefixLen(s)
        rest == SliceFrom(s, i)
        hasDot == StartsWith(rest, ".")
        j == IF hasDot THEN DigitPrefixLen(SliceFrom(rest, 1)) ELSE 0
    IN  [int |-> SubSeq(s, 1, i),
         frac |-> IF hasDot THEN SubSeq(rest, 2, 1 + j) ELSE "",
         len |-> IF hasDot /\ (i + j > 0) THEN i + 1 + j ELSE i]

\* parseFloat(string): the longest decimal literal the string starts with, NaN
\* when there is none.  ("NaN" starts with no digit, so it parses to NaN.)
parseFloat(s) ==
    LET p == DecimalPrefix(s)
    IN  IF p.int = "" /\ p.frac = "" THEN NaN
        ELSE Num(StrToNat(p.int) * 1000 + FracToMil(p.frac))

\* ToNumber(string), applied by the * operator: the whole string must be a
\* decimal literal; the empty string is 0.
ToNumber(s) ==
    LET p == DecimalPrefix(s)
    IN  IF s = "" THEN Num(0)
        ELSE IF p.len # Len(s) \/ (p.int = "" /\ p.frac = "") THEN NaN
        ELSE Num(StrToNat(p.int) * 1000 + FracToMil(p.frac))

\* Number::toString for the values the reports print (0 or at least 0.001):
\* the integer part, then the fraction without trailing zeros.
NumberToString(x) ==
    LET f == x.mil % 1000
        d3 == NatToStr(f \div 100) \o NatToStr((f \div 10) % 10) \o NatToStr(f % 10)
        frac == IF f % 100 = 0 THEN SubSeq(d3, 1, 1)
                ELSE IF f % 10 = 0 THEN SubSeq(d3, 1, 2) ELSE d3
    IN  IF x.nan THEN "NaN"
        ELSE IF f = 0 THEN NatToStr(x.mil \div 1000)
        ELSE NatToStr(x.mil \div 1000) \o "." \o frac

\* Number.prototype.toFixed(2): the nearest hundredth.  The values given to it
\* are products by an even number of tenths, so their thousandths digit is never
\* 5 and the binary rounding of the product cannot change the direction.
toFixed2(x) ==
    LET hun == (x.mil + 5) \div 10
    IN  IF x.nan THEN "NaN"
        ELSE NatToStr(hun \div 100) \o "." \o
             NatToStr((hun \div 10) % 10) \o NatToStr(hun % 10)

\* Faulty variant of TimesRate: a symbol absent from the lookup converts at rate 1.
TimesRate_AbsentRateIsOne(s, lookup, sym) ==
    LET x == ToNumber(s)
    IN  IF x.nan THEN NaN
        ELSE Num((x.mil \div 10) * (IF sym \in DOMAIN lookup THEN lookup[sym] ELSE 10))

\* string * conversionRate; an absent rate is undefined and the product NaN.
\* The product is in thousandths: the hundredths of the amount (case values
\* carry at most two decimals) times the tenths of the rate.
TimesRate(s, lookup, sym) ==
    LET x == ToNumber(s)
    IN  IF sym \notin DOMAIN lookup \/ x.nan THEN NaN
        ELSE Num((x.mil \div 10) * lookup[sym])

-----------------------------------------------------------------------------
(* CSV codec, lines 25-52.                                                 *)

\* String.prototype.indexOf, counted from 1; 0 when sep does not occur.
IndexOf(s, sep) ==
    LET hits == {i \in 1..(Len(s) - Len(sep) + 1) : SubSeq(s, i, i + Len(sep) - 1) = sep}
    IN  IF hits = {} THEN 0 ELSE CHOOSE i \in hits : \A j \in hits : i <= j

\* String.prototype.split with a non-empty separator.
RECURSIVE Split(_, _)
Split(s, sep) ==
    LET i == IndexOf(s, sep)
    IN  IF i = 0 THEN <<s>>
        ELSE <<SubSeq(s, 1, i - 1)>> \o Split(SubSeq(s, i + Len(sep), Len(s)), sep)

\* Array.prototype.join.
RECURSIVE Join(_, _)
Join(arr, sep) ==
    IF Len(arr) = 0 THEN ""
    ELSE IF Len(arr) = 1 THEN arr[1]
    ELSE arr[1] \o sep \o Join(Tail(arr), sep)

convertCSVStrToArr(str) ==
    LET lines == Split(str, "\r\n")
    IN  [i \in 1..Len(lines) |-> Split(lines[i], ",")]

\* Faulty variant of CSVAfterRows: a line break is appended after every row, the last
\* one included.
RECURSIVE CSVAfterRows_BreakAfterEveryRow(_, _)
CSVAfterRows_BreakAfterEveryRow(dataArr, n) ==
    IF n = 0 THEN ""
    ELSE CSVAfterRows_BreakAfterEveryRow(dataArr, n - 1) \o Join(dataArr[n], ",") \o "\r\n"

\* The forEach of lines 46-49 after its first n rows (index = n - 1 is the last).
RECURSIVE CSVAfterRows(_, _)
CSVAfterRows(dataArr, n) ==
    IF n = 0 THEN ""
    ELSE CSVAfterRows(dataArr, n - 1) \o Join(dataArr[n], ",") \o
         (IF n - 1 # Len(dataArr) - 1 THEN "\r\n" ELSE "")

convertArrayToCSVStr(dataArr) == CSVAfterRows(dataArr, Len(dataArr))

-----------------------------------------------------------------------------
(* Bonus calculator, lines 88-98.                                          *)

RECURSIVE FloorLog2(_)
FloorLog2(n) == IF n < 2 THEN 0 ELSE 1 + FloorLog2(n \div 2)

RECURSIVE Pow2Mod1000(_)
Pow2Mod1000(p) == IF p = 0 THEN 1 ELSE (2 * Pow2Mod1000(p - 1)) % 1000

\* parseFloat yields the double nearest the decimal literal.  For a value of w
\* whole units (w >= 1) and f thousandths the doubles around it are spaced
\* 2^-p apart, p = 52 - FloorLog2(w), so the double is w + round(f * 2^p / 1000)
\* / 2^p.  ParseFloatErr is the sign of (double - decimal): it is decided by
\* (f * 2^p) mod 1000, which is never exactly 500.
ParseFloatErr(mil) ==
    LET w == mil \div 1000
        f == mil % 1000
        r == (f * Pow2Mod1000(52 - FloorLog2(w))) % 1000
    IN  IF r = 0 THEN 0 ELSE IF r < 500 THEN -1 ELSE 1

\* The first significant decimal digit of the double nearest num/den, whose
\* decimal value is a little below (err < 0) or above (err > 0) num/den.
RECURSIVE LeadingDigit(_, _, _)
LeadingDigit(num, den, err) ==
    IF num < den THEN LeadingDigit(num * 10, den, err)
    ELSE LET d == num \div den
         IN  IF num % den = 0 /\ err < 0 THEN (IF d = 1 THEN 9 ELSE d - 1) ELSE d

\* parseInt((caseValueAsFloat - threshold) / target), line 95, for a positive
\* difference of aboveMil thousandths.  parseInt converts the Number to a
\* string first.  A quotient of at least 0.000001 prints in decimal notation and
\* parseInt reads its integer part.  A quotient below 0.000001 prints in
\* exponent notation ("9.99999999476131e-7") and parseInt reads the digits
\* before the ".", that is the first significant digit.
parseIntOfQuotient(aboveMil, err, tgt) ==
    LET tiny == aboveMil < tgt /\
                (aboveMil * 1000 < tgt \/ (aboveMil * 1000 = tgt /\ err < 0))
    IN  IF tiny THEN LeadingDigit(aboveMil, 1000 * tgt, err)
        ELSE aboveMil \div (1000 * tgt)

bonusCalculator(value, thr, tgt) ==
    LET caseValueAsFloat == parseFloat(SliceFrom(value, 1))
        aboveMil == caseValueAsFloat.mil - thr * 1000
    IN  IF ~caseValueAsFloat.nan /\ aboveMil > 0
        THEN parseIntOfQuotient(aboveMil, ParseFloatErr(caseValueAsFloat.mil), tgt)
             * BONUS_AMOUNT
        ELSE 0

-----------------------------------------------------------------------------
(* Values of the variables a specification does not use.                   *)

IdleCodec == csvStr = "" /\ csvArr = <<>> /\ outStr = ""
IdleBonus == caseValue = "" /\ threshold = 0 /\ target = 0 /\ totalBonus = 0
IdleReport ==
    /\ brokerCases = <<>> /\ bonusCalculation = 0 /\ conversionLookup = <<>>
    /\ gBPBrokerCases = <<>> /\ commisionArr = <<>> /\ summaryArr = <<>>
    /\ thrown = "none"

-----------------------------------------------------------------------------
(* SpecCodec: getCaseCommissionData's parse and serialise steps (lines     *)
(* 205 and 207) on every text of up to MaxTextLen characters.              *)

CodecAlphabet == {"a", ",", "\r", "\n"}

RECURSIVE TextsOfLen(_)
TextsOfLen(n) ==
    IF n = 0 THEN {""}
    ELSE {t \o c : t \in TextsOfLen(n - 1), c \in CodecAlphabet}

Texts == UNION {TextsOfLen(n) : n \in 0..MaxTextLen}

InitCodec ==
    /\ pc = "text"
    /\ csvStr \in Texts
    /\ csvArr = <<>>
    /\ outStr = ""
    /\ IdleBonus /\ IdleReport

ConvertCSVStrToArr ==
    /\ pc = "text"
    /\ csvArr' = convertCSVStrToArr(csvStr)
    /\ pc' = "rows"
    /\ UNCHANGED <<csvStr, outStr, bonusVars, reportVars>>

ConvertArrayToCSVStr ==
    /\ pc = "rows"
    /\ outStr' = convertArrayToCSVStr(csvArr)
    /\ pc' = "serialized"
    /\ UNCHANGED <<csvStr, csvArr, bonusVars, reportVars>>

NextCodec == ConvertCSVStrToArr \/ ConvertArrayToCSVStr

SpecCodec == InitCodec /\ [][NextCodec]_vars

-----------------------------------------------------------------------------
(* SpecBonus: bonusCalculator on case values around the thresholds and     *)
(* around whole targets above them, for both bonus structures.             *)

BonusStructures ==
    {<<THRESHOLD_AMOUNT_1, TARGET_AMOUNT_1>>, <<THRESHOLD_AMOUNT_2, TARGET_AMOUNT_2>>}

\* Case values in pence: up to MaxSteps whole targets above a threshold, one
\* pound either side, and up to MaxPence pence on top.
BonusPence ==
    {(s[1] + k * s[2] + d) * 100 + p :
        s \in BonusStructures, k \in 0..MaxSteps, d \in {-1, 0, 1}, p \in 0..MaxPence}

\* The text of a GBP case value of the input file, e.g. "£100000.01".
PenceToCaseValue(pence) ==
    "#" \o NatToStr(pence \div 100) \o "." \o
    NatToStr((pence \div 10) % 10) \o NatToStr(pence % 10)

InitBonus ==
    /\ pc = "bonus_call"
    /\ caseValue \in {PenceToCaseValue(p) : p \in BonusPence} \cup {"#NaN"}
    /\ \E s \in BonusStructures : threshold = s[1] /\ target = s[2]
    /\ totalBonus = 0
    /\ IdleCodec /\ IdleReport

BonusCalculator ==
    /\ pc = "bonus_call"
    /\ totalBonus' = bonusCalculator(caseValue, threshold, target)
    /\ pc' = "bonus_returned"
    /\ UNCHANGED <<caseValue, threshold, target, codecVars, reportVars>>

NextBonus == BonusCalculator

SpecBonus == InitBonus /\ [][NextBonus]_vars

\* C1: for every case value of m pounds, bonusCalculator returns 0 when m is at
\* most the threshold and floor((m - threshold) / target) * 10 when it is above;
\* nothing is paid for a partial multiple of the target.
C1_BonusIsWholeTargetsAboveThreshold ==
    pc = "bonus_returned" =>
        \A p \in BonusPence :
            caseValue = PenceToCaseValue(p) =>
                totalBonus = IF p <= 100 * threshold THEN 0
                             ELSE ((p - 100 * threshold) \div (100 * target)) * 10

-----------------------------------------------------------------------------
(* Currency normaliser, lines 60-78.                                       *)

\* Faulty variant of ConvertCase: the converted amount is not rounded with toFixed(2).
ConvertCase_NotRounded(case, lookup) ==
    LET CaseValue == case[3]
        gbpVal == NumberToString(TimesRate(SliceFrom(CaseValue, 1), lookup, FirstChar(CaseValue)))
    IN  IF StartsWith(CaseValue, "#") THEN case
        ELSE <<case[1], case[2], "#" \o gbpVal>>

\* The map callback of lines 63-73 for a row of three fields.
ConvertCase(case, lookup) ==
    LET CaseValue == case[3]
        conversionRateProduct == TimesRate(SliceFrom(CaseValue, 1), lookup, FirstChar(CaseValue))
        gbpVal == toFixed2(parseFloat(NumberToString(conversionRateProduct)))
    IN  IF StartsWith(CaseValue, "#") THEN case
        ELSE <<case[1], case[2], "#" \o gbpVal>>

convertCasesToGBP(cases, lookup) ==
    LET header == cases[1]
        converted == [i \in 1..(Len(cases) - 1) |-> ConvertCase(cases[i + 1], lookup)]
    IN  <<header>> \o converted

-----------------------------------------------------------------------------
(* Per-case commission report, lines 108-144.                              *)

\* Faulty variant of CaseBonus: the second structure replaces the first instead of
\* adding to it.
CaseBonus_SecondReplacesFirst(CaseValue, selector) ==
    IF selector = BONUS_TYPE_2
    THEN bonusCalculator(CaseValue, THRESHOLD_AMOUNT_2, TARGET_AMOUNT_2)
    ELSE bonusCalculator(CaseValue, THRESHOLD_AMOUNT_1, TARGET_AMOUNT_1)

\* Lines 119-131: the bonus of one case under a truthy selector.
CaseBonus(CaseValue, selector) ==
    bonusCalculator(CaseValue, THRESHOLD_AMOUNT_1, TARGET_AMOUNT_1) +
    (IF selector = BONUS_TYPE_2
     THEN bonusCalculator(CaseValue, THRESHOLD_AMOUNT_2, TARGET_AMOUNT_2)
     ELSE 0)

\* Lines 112-136: the commission row of one case; selector 0 is falsy.
CommissionRow(brokerCase, selector) ==
    LET commissionObj ==
            <<brokerCase[1], brokerCase[2], "#" \o NumberToString(Num(BASE_COMMISSION * 1000))>>
    IN  IF selector # 0
        THEN Append(commissionObj,
                    "#" \o NumberToString(Num(CaseBonus(brokerCase[3], selector) * 1000)))
        ELSE commissionObj

\* Line 140: the header is the same four names whatever the selector.
CommissionHeader == <<"BrokerName", "CaseId", "BaseCommission", "BonusCommission">>

\* Faulty variant of getCommissionData: the header is pushed after the rows instead of
\* unshifted before them.
getCommissionData_HeaderLast(cases, selector) ==
    LET gBP == convertCasesToGBP(cases, CURRENCY_LOOKUP)
        commisionRows == [i \in 1..(Len(gBP) - 1) |-> CommissionRow(gBP[i + 1], selector)]
    IN  commisionRows \o <<CommissionHeader>>

getCommissionData(cases, selector) ==
    LET gBP == convertCasesToGBP(cases, CURRENCY_LOOKUP)
        commisionRows == [i \in 1..(Len(gBP) - 1) |-> CommissionRow(gBP[i + 1], selector)]
    IN  <<CommissionHeader>> \o commisionRows

-----------------------------------------------------------------------------
(* Per-broker summary, lines 152-182.  summaryObj is an ordinary object:   *)
(* the sequence of its own properties [key, val] in creation order.        *)

HasOwn(obj, key) == \E i \in 1..Len(obj) : obj[i].key = key
GetOwn(obj, key) == obj[CHOOSE i \in 1..Len(obj) : obj[i].key = key].val

\* summaryObj[key] = val.  Assigning a number to "__proto__" runs the setter
\* of Object.prototype, which ignores it: no own property is created.
SetOwn(obj, key, val) ==
    IF key = "__proto__" THEN obj
    ELSE IF HasOwn(obj, key)
    THEN [i \in 1..Len(obj) |-> IF obj[i].key = key THEN [key |-> key, val |-> val] ELSE obj[i]]
    ELSE Append(obj, [key |-> key, val |-> val])

\* a < b for digit strings of equal length.
RECURSIVE DigitsLess(_, _)
DigitsLess(a, b) ==
    IF a = "" THEN FALSE
    ELSE IF CharAt(a, 1) # CharAt(b, 1) THEN DigitVal(CharAt(a, 1)) < DigitVal(CharAt(b, 1))
    ELSE DigitsLess(SliceFrom(a, 1), SliceFrom(b, 1))

\* a < b for canonical numeric strings.
IndexLess(a, b) == Len(a) < Len(b) \/ (Len(a) = Len(b) /\ DigitsLess(a, b))

\* An array index: the canonical decimal string of an integer in 0..2^32 - 2.
IsArrayIndex(key) ==
    /\ key # ""
    /\ DigitPrefixLen(key) = Len(key)
    /\ (Len(key) = 1 \/ CharAt(key, 1) # "0")
    /\ ~IndexLess("4294967294", key)

RECURSIVE SortIndexKeys(_)
SortIndexKeys(keys) ==
    IF keys = {} THEN <<>>
    ELSE LET least == CHOOSE k \in keys : \A other \in keys \ {k} : IndexLess(k, other)
         IN  <<least>> \o SortIndexKeys(keys \ {least})

\* Faulty variant of ObjectKeys: every key in creation order.
ObjectKeys_CreationOrder(obj) == [i \in 1..Len(obj) |-> obj[i].key]

\* Object.keys: the array-index keys in ascending numeric order, then the other
\* keys in creation order.
ObjectKeys(obj) ==
    LET created == [i \in 1..Len(obj) |-> obj[i].key]
    IN  SortIndexKeys({created[i] : i \in {j \in 1..Len(obj) : IsArrayIndex(created[j])}}) \o
        SelectSeq(created, LAMBDA k : ~IsArrayIndex(k))

\* a + b on Numbers.
Plus(a, b) == IF a.nan \/ b.nan THEN NaN ELSE Num(a.mil + b.mil)

\* Faulty variant of SummaryStep: a missing commission field counts as NaN instead of
\* raising.
SummaryStep_MissingFieldIsNaN(acc, brokerCase) ==
    LET BrokerName == brokerCase[1]
        currentTotal == IF HasOwn(acc.obj, BrokerName)
                        THEN GetOwn(acc.obj, BrokerName) ELSE Num(0)
        field(k) == IF k <= Len(brokerCase) THEN parseFloat(SliceFrom(brokerCase[k], 1)) ELSE NaN
    IN  IF acc.thrown # "none" THEN acc
        ELSE [obj |-> SetOwn(acc.obj, BrokerName, Plus(Plus(currentTotal, field(3)), field(4))),
              thrown |-> "none"]

\* The forEach callback of lines 155-169 on one row: acc is [obj, thrown].
\* summaryObj.hasOwnProperty is not a function once a broker of that name has
\* been stored; a row without a third or fourth field has an undefined
\* BaseCommission or BonusCommission, whose .substring is a TypeError.
SummaryStep(acc, brokerCase) ==
    LET BrokerName == brokerCase[1]
        currentTotal == IF HasOwn(acc.obj, BrokerName)
                        THEN GetOwn(acc.obj, BrokerName) ELSE Num(0)
    IN  IF acc.thrown # "none" THEN acc
        ELSE IF HasOwn(acc.obj, "hasOwnProperty") \/ Len(brokerCase) < 4
        THEN [obj |-> acc.obj, thrown |-> "TypeError"]
        ELSE [obj |-> SetOwn(acc.obj, BrokerName,
                             Plus(Plus(currentTotal, parseFloat(SliceFrom(brokerCase[3], 1))),
                                  parseFloat(SliceFrom(brokerCase[4], 1)))),
              thrown |-> "none"]

\* The forEach of line 155 after the first n data rows.
RECURSIVE SummaryAfterRows(_, _)
SummaryAfterRows(cases, n) ==
    IF n = 0 THEN [obj |-> <<>>, thrown |-> "none"]
    ELSE SummaryStep(SummaryAfterRows(cases, n - 1), cases[n + 1])

\* [rows, thrown]: the array returned, or the exception raised (rows empty).
getCommissionSummaryData(cases) ==
    LET acc == SummaryAfterRows(cases, Len(cases) - 1)
        keys == ObjectKeys(acc.obj)
        summaryRows == [i \in 1..Len(keys) |->
                           <<keys[i], "#" \o NumberToString(GetOwn(acc.obj, keys[i]))>>]
    IN  IF acc.thrown # "none" THEN [rows |-> <<>>, thrown |-> acc.thrown]
        ELSE [rows |-> <<<<"BrokerName", "TotalCommission">>>> \o summaryRows,
              thrown |-> "none"]

-----------------------------------------------------------------------------
(* Spec: the report generators on a header and up to MaxRows case rows.    *)

BrokerNames == {"Alice", "Bob", "7", "10", "__proto__", "hasOwnProperty"}
CaseValues == {"#310000.00", "#110000.00", "$100.00", "$137500.01", "E5.00"}
Selectors == {0, BONUS_TYPE_1, BONUS_TYPE_2}

\* The lookup of the program, and one extended by an entry for the euro (1.2).
Lookups == {CURRENCY_LOOKUP, [sym \in {"$", "E"} |-> IF sym = "$" THEN 8 ELSE 12]}

CaseHeader == <<"BrokerName", "CaseId", "CaseValue">>

\* The broker and the value of a case row: every value for two ordinary names,
\* and one value for every name.
CaseInputs ==
    ({"Alice", "Bob"} \X CaseValues) \cup (BrokerNames \X {"#110000.00"})

\* The i-th case row carries the case id i.
CaseRows(inputs) ==
    [i \in 1..Len(inputs) |-> <<inputs[i][1], NatToStr(i), inputs[i][2]>>]

Init ==
    /\ pc = "start"
    /\ \E n \in 0..MaxRows :
        \E inputs \in [1..n -> CaseInputs] :
            brokerCases = <<CaseHeader>> \o CaseRows(inputs)
    /\ bonusCalculation \in Selectors
    /\ conversionLookup = <<>>
    /\ gBPBrokerCases = <<>>
    /\ commisionArr = <<>>
    /\ summaryArr = <<>>
    /\ thrown = "none"
    /\ IdleCodec /\ IdleBonus

ConvertCasesToGBP ==
    /\ pc = "start"
    /\ \E lookup \in Lookups :
        /\ conversionLookup' = lookup
        /\ gBPBrokerCases' = convertCasesToGBP(brokerCases, lookup)
    /\ pc' = "converted"
    /\ UNCHANGED <<brokerCases, bonusCalculation, commisionArr, summaryArr, thrown,
                   codecVars, bonusVars>>

GetCommissionData ==
    /\ pc = "start"
    /\ commisionArr' = getCommissionData(brokerCases, bonusCalculation)
    /\ pc' = "commission"
    /\ UNCHANGED <<brokerCases, bonusCalculation, conversionLookup, gBPBrokerCases,
                   summaryArr, thrown, codecVars, bonusVars>>

GetCommissionSummaryData ==
    /\ pc = "commission"
    /\ LET result == getCommissionSummaryData(commisionArr)
       IN  summaryArr' = result.rows /\ thrown' = result.thrown
    /\ pc' = "summary"
    /\ UNCHANGED <<brokerCases, bonusCalculation, conversionLookup, gBPBrokerCases,
                   commisionArr, codecVars, bonusVars>>

Next == ConvertCasesToGBP \/ GetCommissionData \/ GetCommissionSummaryData

Spec == Init /\ [][Next]_vars

-----------------------------------------------------------------------------
(* Properties of the per-case commission report.                           *)

\* The GBP value the normaliser is expected to emit for each case value of
\* the inputs, worked by hand: 100.00 * 0.8 = 80.00, 137500.01 * 0.8 =
\* 110000.008 which rounds to 110000.01, 5.00 * 1.2 = 6.00.
ExpectedGBP(value, lookup) ==
    CASE value = "#310000.00" -> "#310000.00"
      [] value = "#110000.00" -> "#110000.00"
      [] value = "$100.00" -> "#80.00"
      [] value = "$137500.01" -> "#110000.01"
      [] value = "E5.00" -> IF "E" \in DOMAIN lookup THEN "#6.00" ELSE "#NaN"

DataRows(report) == 2..Len(report)

\* C2: under BONUS_TYPE_1 the bonus emitted for a case is
\* bonus(value, 100000, 10000); under BONUS_TYPE_2 it is that plus
\* bonus(value, 250000, 50000), both on the same GBP case value, so it is never
\* less than the structure-1 bonus; £310000.00 gives 210 + 10 = 220.
C2_StructureTwoAddsStructureOne ==
    (pc = "commission" /\ bonusCalculation # 0) =>
        \A i \in DataRows(commisionArr) :
            LET value == ExpectedGBP(brokerCases[i][3], CURRENCY_LOOKUP)
                first == bonusCalculator(value, THRESHOLD_AMOUNT_1, TARGET_AMOUNT_1)
                second == bonusCalculator(value, THRESHOLD_AMOUNT_2, TARGET_AMOUNT_2)
                emitted == parseFloat(SliceFrom(commisionArr[i][4], 1))
            IN  /\ bonusCalculation = BONUS_TYPE_1 => emitted = Num(first * 1000)
                /\ bonusCalculation = BONUS_TYPE_2 =>
                    /\ emitted = Num((first + second) * 1000)
                    /\ emitted.mil >= first * 1000
                    /\ value = "#310000.00" => commisionArr[i][4] = "#220"
                /\ (value = "#310000.00" /\ bonusCalculation = BONUS_TYPE_1) =>
                    commisionArr[i][4] = "#210"

C2_Witness ==
    /\ pc = "commission" /\ bonusCalculation = BONUS_TYPE_2
    /\ \E i \in DataRows(commisionArr) :
        brokerCases[i][3] = "#310000.00" /\ commisionArr[i][4] = "#220"

\* C3: with no bonus structure selected the header row and every data row have
\* exactly three fields; with one selected they have exactly four.
C3_BonusColumnOmittedEverywhere ==
    pc = "commission" =>
        \A i \in 1..Len(commisionArr) :
            Len(commisionArr[i]) = IF bonusCalculation = 0 THEN 3 ELSE 4

\* C4: the report is one header row followed by exactly one row per case, the
\* i-th carrying the BrokerName and CaseId of the i-th case and base
\* commission "£125".
C4_OneRowPerCaseInOrder ==
    pc = "commission" =>
        /\ Len(commisionArr) = Len(brokerCases)
        /\ SubSeq(commisionArr[1], 1, 3) = <<"BrokerName", "CaseId", "BaseCommission">>
        /\ \A i \in DataRows(brokerCases) :
            /\ commisionArr[i][1] = brokerCases[i][1]
            /\ commisionArr[i][2] = brokerCases[i][2]
            /\ commisionArr[i][3] = "#125"

C4_Witness ==
    /\ pc = "commission"
    /\ Len(brokerCases) = 3
    /\ brokerCases[2][1] = "Bob" /\ brokerCases[3][1] = "Alice"
    /\ commisionArr[2][1] = "Bob" /\ commisionArr[3][1] = "Alice"

\* C8: convertCasesToGBP returns the header unchanged, every row whose value
\* starts with "£" unchanged, and every row whose symbol is in the lookup as
\* the same BrokerName and CaseId with the value converted and rounded to two
\* decimals; the output has the rows of the input in the same order, and the
\* input is not changed by any call.
C8_Converted ==
    pc = "converted" =>
        /\ Len(gBPBrokerCases) = Len(brokerCases)
        /\ gBPBrokerCases[1] = brokerCases[1]
        /\ \A i \in DataRows(brokerCases) :
            LET in == brokerCases[i]
                out == gBPBrokerCases[i]
            IN  /\ StartsWith(in[3], "#") => out = in
                /\ FirstChar(in[3]) \in DOMAIN conversionLookup =>
                    out = <<in[1], in[2], ExpectedGBP(in[3], conversionLookup)>>

\* C8: every result of convertCasesToGBP is the conversion described above
\* (C8_Converted), and no step of the run changes the input rows.
C8_ConvertsWithoutMutating ==
    []C8_Converted /\ [][brokerCases' = brokerCases]_vars

C8_Witness ==
    /\ pc = "converted"
    /\ Len(brokerCases) = 3
    /\ brokerCases[2][3] = "$100.00" /\ gBPBrokerCases[2][3] = "#80.00"
    /\ brokerCases[3][3] = "#110000.00" /\ gBPBrokerCases[3] = brokerCases[3]

\* C9: a case whose symbol is neither "£" nor a key of the lookup does not
\* fail the run: convertCasesToGBP emits it with the value "£NaN" and converts
\* the other rows as usual, and getCommissionData still emits its commission
\* row, base "£125" and, when a structure is selected, bonus "£0".
C9_UnknownCurrencyPropagatesNaN ==
    /\ thrown = "none" \/ pc = "summary"
    /\ pc = "converted" =>
        /\ Len(gBPBrokerCases) = Len(brokerCases)
        /\ \A i \in DataRows(brokerCases) :
            LET in == brokerCases[i]
            IN  IF FirstChar(in[3]) \notin (DOMAIN conversionLookup \cup {"#"})
                THEN gBPBrokerCases[i] = <<in[1], in[2], "#NaN">>
                ELSE gBPBrokerCases[i][3] = ExpectedGBP(in[3], conversionLookup)
    /\ pc = "commission" =>
        \A i \in DataRows(brokerCases) :
            LET in == brokerCases[i]
            IN  FirstChar(in[3]) \notin (DOMAIN CURRENCY_LOOKUP \cup {"#"}) =>
                    commisionArr[i] = IF bonusCalculation = 0
                                      THEN <<in[1], in[2], "#125">>
                                      ELSE <<in[1], in[2], "#125", "#0">>

C9_Witness ==
    /\ pc = "commission" /\ bonusCalculation = BONUS_TYPE_2
    /\ Len(brokerCases) = 3
    /\ brokerCases[2][3] = "E5.00" /\ commisionArr[2] = <<"Alice", "1", "#125", "#0">>
    /\ brokerCases[3][3] = "#310000.00" /\ commisionArr[3][4] = "#220"

-----------------------------------------------------------------------------
(* Properties of the per-broker summary.  The report summarised is         *)
(* commisionArr, which has four columns when a bonus structure was         *)
(* selected and three-field data rows when none was.                       *)

NamesIn(report) == {report[i][1] : i \in DataRows(report)}

\* The first data row of the report that names the broker.
FirstRowOf(name, report) ==
    CHOOSE i \in DataRows(report) :
        report[i][1] = name /\ \A j \in DataRows(report) : report[j][1] = name => i <= j

\* Base plus bonus commission, in pounds, over the first n data rows that name
\* the broker.
RECURSIVE TotalOf(_, _, _)
TotalOf(name, report, n) ==
    IF n = 0 THEN 0
    ELSE TotalOf(name, report, n - 1) +
         (IF report[n + 1][1] = name
          THEN StrToNat(SliceFrom(report[n + 1][3], 1)) + StrToNat(SliceFrom(report[n + 1][4], 1))
          ELSE 0)

\* C5: for a four-column report the summary is the header BrokerName,
\* TotalCommission followed by exactly one row per distinct BrokerName, whose
\* total is the sum of base and bonus commission over that broker's rows.
C5_OneTotalPerBroker ==
    (pc = "summary" /\ bonusCalculation # 0) =>
        /\ thrown = "none"
        /\ Len(summaryArr) = 1 + Cardinality(NamesIn(commisionArr))
        /\ summaryArr[1] = <<"BrokerName", "TotalCommission">>
        /\ \A name \in NamesIn(commisionArr) :
            \E i \in DataRows(summaryArr) :
                summaryArr[i] =
                    <<name, "#" \o NatToStr(TotalOf(name, commisionArr, Len(commisionArr) - 1))>>

\* C6: the summary rows are in first-seen order: if A's first data row
\* precedes B's in the report, A's summary row precedes B's.
C6_FirstSeenOrder ==
    (pc = "summary" /\ bonusCalculation # 0 /\ thrown = "none") =>
        \A i, j \in DataRows(summaryArr) :
            LET A == summaryArr[i][1]
                B == summaryArr[j][1]
            IN  (A # B /\ FirstRowOf(A, commisionArr) < FirstRowOf(B, commisionArr)) => i < j

\* C6 as amended: the rows of array-index names come first, in ascending
\* numeric order; the rows of the other names follow in first-seen order.
C6_IndexNamesFirstThenFirstSeen ==
    (pc = "summary" /\ bonusCalculation # 0 /\ thrown = "none") =>
        \A i, j \in DataRows(summaryArr) :
            LET A == summaryArr[i][1]
                B == summaryArr[j][1]
            IN  i < j =>
                    /\ A \in NamesIn(commisionArr) /\ B \in NamesIn(commisionArr)
                    /\ IsArrayIndex(B) => (IsArrayIndex(A) /\ IndexLess(A, B))
                    /\ (~IsArrayIndex(A) /\ ~IsArrayIndex(B)) =>
                        FirstRowOf(A, commisionArr) < FirstRowOf(B, commisionArr)

C6_Witness ==
    /\ pc = "summary" /\ bonusCalculation # 0 /\ thrown = "none"
    /\ Len(commisionArr) = 3
    /\ commisionArr[2][1] = "Alice" /\ commisionArr[3][1] = "7"
    /\ summaryArr[2][1] = "7" /\ summaryArr[3][1] = "Alice"

\* C7: summarising a report whose data rows have three fields raises no
\* error: the call completes and returns rows.
C7_ThreeColumnReportReturnsRows ==
    (pc = "summary" /\ bonusCalculation = 0) =>
        thrown = "none" /\ Len(summaryArr) >= 1

\* C7 as amended: the report is not validated; with at least one three-field
\* data row the call raises a TypeError and returns nothing, and with no data
\* row it returns the header alone.
C7_ThreeColumnReportThrows ==
    (pc = "summary" /\ bonusCalculation = 0) =>
        IF Len(commisionArr) > 1
        THEN thrown = "TypeError" /\ summaryArr = <<>>
        ELSE thrown = "none" /\ summaryArr = <<<<"BrokerName", "TotalCommission">>>>

C7_Witness ==
    /\ pc = "summary" /\ bonusCalculation = 0
    /\ Len(commisionArr) = 3 /\ Len(commisionArr[2]) = 3
    /\ thrown = "TypeError"

-----------------------------------------------------------------------------
(* Property of the codec.                                                  *)

RECURSIVE FieldChars(_)
FieldChars(row) == IF Len(row) = 0 THEN 0 ELSE Len(row[1]) + FieldChars(Tail(row))

\* The characters of the rows: the fields, one comma between two fields of a
\* row, and one two-character line break between two rows.
RECURSIVE RowChars(_)
RowChars(rows) ==
    IF Len(rows) = 0 THEN 0
    ELSE FieldChars(rows[1]) + (Len(rows[1]) - 1) +
         (IF Len(rows) > 1 THEN 2 ELSE 0) + RowChars(Tail(rows))

\* C10: serialising the parsed rows of a text gives the text back, with no
\* line break after the last row.
C10_RoundTrip ==
    pc = "serialized" =>
        /\ outStr = csvStr
        /\ Len(outStr) = RowChars(csvArr)

C10_Witness ==
    /\ pc = "serialized"
    /\ csvStr = "a,\r\n"
    /\ csvArr = << <<"a", "">>, <<"">> >>
    /\ outStr = "a,\r\n"

====
